---- MODULE Spec2Model ----
(***************************************************************************)
(* gotoon: the TOON codec (encoder, lexer, recursive-descent parser).      *)
(* Text is a sequence of one-character strings; Go byte offsets are        *)
(* 0-based, so Go's input[i] is input[i+1] here.                           *)
(***************************************************************************)
EXTENDS Integers, Sequences, FiniteSets, TLC

(***************************************************************************)
(* Characters                                                              *)
(***************************************************************************)

\* The bytes the model uses, in ascending byte order (sort.Strings compares
\* bytes).  "<a0>" and "<c3>" stand for the single bytes 0xA0 and 0xC3.
AsciiOrder ==
    <<
       "\t", "\n", " ", "!", "\"", "+", ",", "-", ".", "0", "1", "2", "3",
       "4", "5", "6", "7", "8", "9", ":", "A", "B", "C", "D", "E", "F",
       "G", "H", "I", "J", "K", "L", "M", "N", "O", "P", "Q", "R", "S",
       "T", "U", "V", "W", "X", "Y", "Z", "[", "\\", "]", "_", "a", "b",
       "c", "d", "e", "f", "g", "h", "i", "j", "k", "l", "m", "n", "o",
       "p", "q", "r", "s", "t", "u", "v", "w", "x", "y", "z", "{", "}",
       "<a0>", "<c3>" >>

Code(c) == CHOOSE i \in 1..Len(AsciiOrder) : AsciiOrder[i] = c

Digits == << "0", "1", "2", "3", "4", "5", "6", "7", "8", "9" >>

IsDigit(c) == \E i \in 1..Len(Digits) : Digits[i] = c

DigitVal(c) == (CHOOSE i \in 1..Len(Digits) : Digits[i] = c) - 1

\* rune(-1), what lexer.next returns at the end of the input
EOFRune == "<eof>"

\* 'a' <= c <= 'z' || 'A' <= c <= 'Z' || c == '_'
isAlpha(c) ==
    \/ c # EOFRune /\ Code("a") <= Code(c) /\ Code(c) <= Code("z")
    \/ c # EOFRune /\ Code("A") <= Code(c) /\ Code(c) <= Code("Z")
    \/ c = "_"

isAlphaNumeric(c) == isAlpha(c) \/ (c # EOFRune /\ IsDigit(c))

\* a byte r >= 0x80
IsHigh(c) == c \in { "<a0>", "<c3>" }

\* unicode.IsSpace on the bytes of AsciiOrder, each taken as the rune
\* rune(byte): U+00A0 is a space
IsSpace(c) == c \in { " ", "\n", "\t", "<a0>" }

Spaces(n) == [i \in 1..n |-> " "]

\* Go's s[from:to], 0-based, half-open
Slice(s, from, to) == SubSeq(s, from + 1, to)

(***************************************************************************)
(* Lexer                                                                   *)
(***************************************************************************)

newLexer(input) == [input |-> input, pos |-> 0, start |-> 0, width |-> 0]

\* l.width of lexer.next for the byte at l.pos: utf8.RuneLen(r) is 2 for
\* 0x80 <= r <= 0xFF, cut to what is left of the input
runeWidth(l) ==
    IF ~IsHigh(l.input[l.pos + 1]) THEN 1
    ELSE IF l.pos + 2 > Len(l.input) THEN Len(l.input) - l.pos
    ELSE 2

\* lexer.next: the lexer after the call and the rune returned
next(l) ==
    IF l.pos >= Len(l.input)
    THEN [l |-> [l EXCEPT !.width = 0], r |-> EOFRune]
    ELSE [l |-> [l EXCEPT !.width = runeWidth(l), !.pos = l.pos + runeWidth(l)],
          r |-> l.input[l.pos + 1]]

backup(l) == [l EXCEPT !.pos = l.pos - l.width]

\* lexer.peek: next, then backup
peekOf(n) == [l |-> backup(n.l), r |-> n.r]

peek(l) == peekOf(next(l))

emit(l, typ) == [typ |-> typ, value |-> Slice(l.input, l.start, l.pos), pos |-> l.start]

\* a lexer and the token it has just emitted
Emitted(l, typ) == [l |-> l, tok |-> emit(l, typ)]

\* the loop of skipWhitespace, on the result of l.next()
RECURSIVE skipWhitespaceOn(_)
skipWhitespaceOn(n) ==
    IF n.r = EOFRune \/ ~IsSpace(n.r) THEN backup(n.l) ELSE skipWhitespaceOn(next(n.l))

skipWhitespace(l) == skipWhitespaceOn(next(l))

\* the loop of scanString, on the result of l.next(): a backslash skips the
\* rune after it
RECURSIVE scanStringOn(_)
scanStringOn(n) ==
    IF n.r = "\"" \/ n.r = EOFRune THEN n.l
    ELSE IF n.r = "\\" THEN scanStringOn(next(next(n.l).l))
    ELSE scanStringOn(next(n.l))

scanString(l) == Emitted(scanStringOn(next(l)), "String")

\* for l.pos < len && '0' <= input[pos] <= '9' { l.pos++ }
RECURSIVE skipDigits(_, _)
skipDigits(input, pos) ==
    IF pos < Len(input) /\ IsDigit(input[pos + 1])
    THEN skipDigits(input, pos + 1)
    ELSE pos

\* the exponent branch of scanNumber, from the offset of the e
exponentEnd(input, q) ==
    skipDigits(input, IF q + 1 < Len(input) /\ input[q + 2] \in {"+", "-"} THEN q + 2 ELSE q + 1)

\* the iteration of scanNumber that meets the non-digit byte c at offset p0:
\* the '.' branch and the exponent branch both test this same c
numberTail(input, p0, c) ==
    IF c = "." THEN skipDigits(input, p0 + 1)
    ELSE IF c = "e" \/ c = "E" THEN exponentEnd(input, p0)
    ELSE p0

\* the for loop of scanNumber once the leading digits are consumed
numberEnd(input, p0) ==
    IF p0 >= Len(input) THEN p0 ELSE numberTail(input, p0, input[p0 + 1])

scanNumberLoop(input, pos) == numberEnd(input, skipDigits(input, pos))

\* if l.input[l.pos-1] == '-' { l.next() }
afterMinus(l) == IF l.input[l.pos] = "-" THEN next(l).l ELSE l

scanNumberFrom(l) == Emitted([l EXCEPT !.pos = scanNumberLoop(l.input, l.pos)], "Number")

scanNumber(l) == scanNumberFrom(afterMinus(l))

\* the loop of scanIdentifier, on the result of l.next()
RECURSIVE scanIdentifierOn(_)
scanIdentifierOn(n) ==
    IF ~isAlphaNumeric(n.r) THEN backup(n.l) ELSE scanIdentifierOn(next(n.l))

identType(val) ==
    IF val = <<"t","r","u","e">> \/ val = <<"f","a","l","s","e">> THEN "Boolean"
    ELSE IF val = <<"n","u","l","l">> THEN "Null"
    ELSE "Identifier"

scanIdentifierFrom(l) == Emitted(l, identType(Slice(l.input, l.start, l.pos)))

scanIdentifier(l) == scanIdentifierFrom(scanIdentifierOn(next(l)))

\* case ':' of nextToken, on the result of l.peek()
scanColon(pk) ==
    IF pk.r = ":" THEN Emitted(next(pk.l).l, "ColonColon") ELSE Emitted(pk.l, "Colon")

\* the switch of nextToken on c := l.next()
scanToken(l, c) ==
    CASE c = "{" -> Emitted(l, "LBrace")
      [] c = "}" -> Emitted(l, "RBrace")
      [] c = "[" -> Emitted(l, "LBracket")
      [] c = "]" -> Emitted(l, "RBracket")
      [] c = ":" -> scanColon(peek(l))
      [] c = "," -> Emitted(l, "Comma")
      [] c = "\"" -> scanString(l)
      [] c = "-" \/ IsDigit(c) -> scanNumber(l)
      [] OTHER -> IF isAlpha(c) THEN scanIdentifier(l) ELSE Emitted(l, "EOF")

scanTokenOf(n) == scanToken(n.l, n.r)

\* nextToken after skipWhitespace and l.start = l.pos
nextTokenAt(l) ==
    IF l.pos >= Len(l.input) THEN Emitted(l, "EOF") ELSE scanTokenOf(next(l))

\* nextToken without its l.start = l.pos
markStartKept(l) == l

\* l.start = l.pos
markStart(l) == [l EXCEPT !.start = l.pos]

\* lexer.nextToken: the lexer after the call and the token returned
nextToken(l) == nextTokenAt(markStart(skipWhitespace(l)))

(***************************************************************************)
(* Go values (interface{}): nil, bool, int/int64, float64, string,         *)
(* map[string]interface{} and []interface{}.  A float64 is kept as the     *)
(* decimal fm * 10^fe with fm not divisible by 10 (0 is fm = 0, fe = 0).   *)
(***************************************************************************)

GoNil == [t |-> "nil"]

GoBool(b) == [t |-> "bool", b |-> b]

GoInt(i) == [t |-> "int", i |-> i]

GoString(s) == [t |-> "string", s |-> s]

GoMap(kv) == [t |-> "map", kv |-> kv]

\* a nil slice (var arr []interface{} never appended to) has isnil = TRUE
GoSlice(el, isnil) == [t |-> "slice", el |-> el, isnil |-> isnil]

RECURSIVE NormFloat(_, _)
NormFloat(m, e) ==
    IF m = 0 THEN [t |-> "float", fm |-> 0, fe |-> 0]
    ELSE IF m % 10 = 0 THEN NormFloat(m \div 10, e + 1)
    ELSE [t |-> "float", fm |-> m, fe |-> e]

GoFloat(m, e) == NormFloat(m, e)

MapPut(kv, k, v) == [x \in (DOMAIN kv) \cup {k} |-> IF x = k THEN v ELSE kv[x]]

EmptyMap == [x \in {} |-> GoNil]

(***************************************************************************)
(* strconv and fmt                                                         *)
(***************************************************************************)

Abs(n) == IF n < 0 THEN -n ELSE n

RECURSIVE NatDigits(_)
NatDigits(n) ==
    IF n < 10 THEN << Digits[n + 1] >>
    ELSE NatDigits(n \div 10) \o << Digits[(n % 10) + 1] >>

\* fmt.Sprintf("%d", n)
FormatInt(n) == IF n < 0 THEN << "-" >> \o NatDigits(-n) ELSE NatDigits(n)

RECURSIVE DigitsVal(_)
DigitsVal(s) ==
    IF s = << >> THEN 0
    ELSE 10 * DigitsVal(SubSeq(s, 1, Len(s) - 1)) + DigitVal(s[Len(s)])

AllDigits(s) == \A i \in 1..Len(s) : IsDigit(s[i])

\* val, _ := strconv.ParseInt(s, 10, 64): 0 on a syntax error.  (The range
\* clamp to the int64 limits is beyond the lexemes of the model.)
ParseInt(s) ==
    LET signed == s # << >> /\ s[1] \in {"+", "-"}
        body   == IF signed THEN Tail(s) ELSE s
    IN  IF body = << >> \/ ~AllDigits(body) THEN 0
        ELSE IF signed /\ s[1] = "-" THEN -DigitsVal(body) ELSE DigitsVal(body)

\* index of the first element of s in set cs, or Len(s) + 1
FirstIn(s, cs) ==
    IF \E i \in 1..Len(s) : s[i] \in cs
    THEN CHOOSE i \in 1..Len(s) : s[i] \in cs /\ \A j \in 1..(i - 1) : s[j] \notin cs
    ELSE Len(s) + 1

\* val, _ := strconv.ParseFloat(s, 64) on decimal lexemes: sign, digits with
\* at most one '.', at least one mantissa digit, optional exponent with at
\* least one digit; 0 on a syntax error.
ParseFloat(s) ==
    LET signed == s # << >> /\ s[1] \in {"+", "-"}
        neg    == signed /\ s[1] = "-"
        body   == IF signed THEN Tail(s) ELSE s
        ePos   == FirstIn(body, {"e", "E"})
        mant   == SubSeq(body, 1, ePos - 1)
        hasExp == ePos <= Len(body)
        expo   == SubSeq(body, ePos + 1, Len(body))
        dot    == FirstIn(mant, {"."})
        ip     == SubSeq(mant, 1, dot - 1)
        fp     == SubSeq(mant, dot + 1, Len(mant))
        mantOk == AllDigits(ip) /\ AllDigits(fp) /\ Len(ip) + Len(fp) > 0
        eSigned == expo # << >> /\ expo[1] \in {"+", "-"}
        eBody  == IF eSigned THEN Tail(expo) ELSE expo
        expOk  == ~hasExp \/ (eBody # << >> /\ AllDigits(eBody))
        eVal   == IF ~hasExp THEN 0
                  ELSE IF eSigned /\ expo[1] = "-" THEN -DigitsVal(eBody)
                  ELSE DigitsVal(eBody)
        m      == DigitsVal(ip \o fp)
    IN  IF mantOk /\ expOk
        THEN GoFloat(IF neg THEN -m ELSE m, eVal - Len(fp))
        ELSE GoFloat(0, 0)

\* two-digit minimum exponent of %e
ExpDigits(x) == IF x < 10 THEN << "0" >> \o NatDigits(x) ELSE NatDigits(x)

Zeros(n) == [i \in 1..n |-> "0"]

\* fmt.Sprintf("%g", f): shortest digits; %e when the decimal exponent x is
\* < -4 or >= 6 (strconv's eprec for the shortest format), else %f.
FormatG(f) ==
    LET neg  == f.fm < 0
        ds   == IF f.fm = 0 THEN << >> ELSE NatDigits(Abs(f.fm))
        nd   == Len(ds)
        dp   == IF f.fm = 0 THEN 0 ELSE nd + f.fe
        x    == dp - 1
        sign == IF neg THEN << "-" >> ELSE << >>
        fmtE == << (IF nd = 0 THEN "0" ELSE ds[1]) >>
                \o (IF nd > 1 THEN << "." >> \o SubSeq(ds, 2, nd) ELSE << >>)
                \o << "e" >> \o (IF x < 0 THEN << "-" >> ELSE << "+" >>)
                \o ExpDigits(Abs(x))
        intPart  == IF dp > 0
                    THEN SubSeq(ds, 1, IF dp < nd THEN dp ELSE nd)
                         \o Zeros(IF dp > nd THEN dp - nd ELSE 0)
                    ELSE << "0" >>
        fracPart == IF nd > dp
                    THEN << "." >> \o Zeros(IF dp < 0 THEN -dp ELSE 0)
                         \o SubSeq(ds, (IF dp > 0 THEN dp ELSE 0) + 1, nd)
                    ELSE << >>
    IN  sign \o (IF x < -4 \/ x >= 6 THEN fmtE ELSE intPart \o fracPart)

RECURSIVE QuoteBody(_)
QuoteBody(s) ==
    IF s = << >> THEN << >>
    ELSE (CASE s[1] = "\"" -> << "\\", "\"" >>
            [] s[1] = "\\" -> << "\\", "\\" >>
            [] s[1] = "\n" -> << "\\", "n" >>
            [] s[1] = "\t" -> << "\\", "t" >>
            [] OTHER -> << s[1] >>) \o QuoteBody(Tail(s))

\* fmt.Sprintf("%q", s)
Quote(s) == << "\"" >> \o QuoteBody(s) \o << "\"" >>

\* the body of a double-quoted literal, unescaped; ok = FALSE on a bare
\* quote, a newline, a dangling backslash or an escape outside \\ \" \n \t
\* (the other escapes of Go do not occur in the texts of the model)
RECURSIVE UnquoteBody(_)
UnquoteBody(s) ==
    IF s = << >> THEN [ok |-> TRUE, s |-> << >>]
    ELSE IF s[1] = "\"" \/ s[1] = "\n" THEN [ok |-> FALSE, s |-> << >>]
    ELSE IF s[1] = "\\"
         THEN IF Len(s) < 2 \/ s[2] \notin {"\\", "\"", "n", "t"}
              THEN [ok |-> FALSE, s |-> << >>]
              ELSE LET c == CASE s[2] = "n" -> "\n" [] s[2] = "t" -> "\t" [] OTHER -> s[2]
                       r == UnquoteBody(SubSeq(s, 3, Len(s)))
                   IN  [ok |-> r.ok, s |-> IF r.ok THEN << c >> \o r.s ELSE << >>]
         ELSE LET r == UnquoteBody(Tail(s))
              IN  [ok |-> r.ok, s |-> IF r.ok THEN << s[1] >> \o r.s ELSE << >>]

\* strconv.Unquote: ok = FALSE is a non-nil error (the string is then "")
Unquote(s) ==
    IF Len(s) < 2 \/ s[1] # "\"" \/ s[Len(s)] # "\""
    THEN [ok |-> FALSE, s |-> << >>]
    ELSE UnquoteBody(SubSeq(s, 2, Len(s) - 1))

(***************************************************************************)
(* Parser.  p = [lexer, cur, peek].  Every parse function yields           *)
(*   [p, st, val, msg]: st = "ok" with the value, st = "error" with the    *)
(*   message of the returned error, or st = "hang" when a loop of the      *)
(*   function re-enters an iteration in the very state it started it in    *)
(*   (the Go loop then never exits).                                       *)
(***************************************************************************)

ZeroToken == [typ |-> "EOF", value |-> << >>, pos |-> 0]

\* p.cur = p.peek; p.peek = the token the lexer returned
pShift(p, n) == [lexer |-> n.l, cur |-> p.peek, peek |-> n.tok]

\* parser.nextToken
pNextToken(p) == pShift(p, nextToken(p.lexer))

newParser(lexer) ==
    pNextToken(pNextToken([lexer |-> lexer, cur |-> ZeroToken, peek |-> ZeroToken]))

POk(p, val) == [p |-> p, st |-> "ok", val |-> val, msg |-> ""]

PErr(p, msg) == [p |-> p, st |-> "error", val |-> GoNil, msg |-> msg]

PHang(p) == [p |-> p, st |-> "hang", val |-> GoNil, msg |-> ""]

HasAny(s, cs) == \E i \in 1..Len(s) : s[i] \in cs

\* if p.cur.typ == tokenComma { p.nextToken() }
skipComma(p) == IF p.cur.typ = "Comma" THEN pNextToken(p) ELSE p

\* the key branches of one iteration of parseTableKeys
tableKeyStep(p, keys) ==
    CASE p.cur.typ = "Identifier" ->
            [p |-> pNextToken(p), keys |-> Append(keys, p.cur.value)]
      [] p.cur.typ = "String" ->
            [p |-> pNextToken(p), keys |-> Append(keys, Unquote(p.cur.value).s)]
      [] OTHER -> [p |-> p, keys |-> keys]

\* one whole iteration: the key branches, then the comma
tableKeysIter(k) == [p |-> skipComma(k.p), keys |-> k.keys]

\* the for loop of parseTableKeys.  An iteration on a token that is neither
\* an identifier, a string nor a comma consumes nothing: the loop is then
\* back in the state it was in, and never exits.
RECURSIVE parseTableKeysLoop(_, _)
RECURSIVE parseTableKeysNext(_, _, _)
parseTableKeysLoop(p, keys) ==
    IF p.cur.typ = "RBrace" \/ p.cur.typ = "EOF"
    THEN [p |-> p, keys |-> keys, hang |-> FALSE]
    ELSE parseTableKeysNext(p, keys, tableKeysIter(tableKeyStep(p, keys)))

parseTableKeysNext(p, keys, k) ==
    IF k.p = p /\ k.keys = keys
    THEN [p |-> p, keys |-> keys, hang |-> TRUE]
    ELSE parseTableKeysLoop(k.p, k.keys)

parseTableKeys(p) == parseTableKeysLoop(p, << >>)

\* the trailing loop of parseTableFormat: for cur != ] && cur != EOF { next }
RECURSIVE skipToRBracket(_)
skipToRBracket(p) ==
    IF p.cur.typ # "RBracket" /\ p.cur.typ # "EOF"
    THEN skipToRBracket(pNextToken(p))
    ELSE p

RECURSIVE parseValue(_)
RECURSIVE parseObjectLoop(_, _)
RECURSIVE parseArrayLoop(_, _)
RECURSIVE parseRow(_, _, _, _)
RECURSIVE parseTableRows(_, _, _)

\* obj[key] = value; the optional comma; the next iteration
objectPut(r, obj, key) ==
    IF r.st # "ok" THEN r
    ELSE parseObjectLoop(skipComma(r.p), MapPut(obj, key, r.val))

\* after the key: the colon, then the value
objectColon(p, obj, key) ==
    IF p.cur.typ # "Colon"
    THEN PErr(p, "expected colon")
    ELSE objectPut(parseValue(pNextToken(p)), obj, key)

\* the for loop of parseObject
parseObjectLoop(p, obj) ==
    IF p.cur.typ = "RBrace" \/ p.cur.typ = "EOF"
    THEN POk(p, GoMap(obj))
    ELSE IF p.cur.typ # "Identifier" /\ p.cur.typ # "String"
    THEN PErr(p, "expected key")
    ELSE objectColon(pNextToken(p), obj,
                     IF p.cur.typ = "String" THEN Unquote(p.cur.value).s ELSE p.cur.value)

\* after the loop of parseObject
objectClose(r) ==
    IF r.st # "ok" THEN r
    ELSE IF r.p.cur.typ # "RBrace" THEN PErr(r.p, "unclosed object")
    ELSE POk(pNextToken(r.p), r.val)

parseObject(p) == objectClose(parseObjectLoop(pNextToken(p), EmptyMap))

\* arr = append(arr, value); the optional comma; the next iteration
arrayAppend(r, arr) ==
    IF r.st # "ok" THEN r
    ELSE parseArrayLoop(skipComma(r.p), GoSlice(Append(arr.el, r.val), FALSE))

\* the plain-array for loop of parseArray; arr is nil until the first append
parseArrayLoop(p, arr) ==
    IF p.cur.typ = "RBracket" \/ p.cur.typ = "EOF"
    THEN POk(p, arr)
    ELSE arrayAppend(parseValue(p), arr)

\* obj[key] = value; the comma after every cell but the last
rowPut(r, keys, i, obj) ==
    IF r.st # "ok" THEN r
    ELSE parseRow(IF i < Len(keys) THEN skipComma(r.p) ELSE r.p,
                  keys, i + 1, MapPut(obj, keys[i], r.val))

\* for i, key := range keys { ... } of parseTableFormat, from index i
parseRow(p, keys, i, obj) ==
    IF i > Len(keys) \/ p.cur.typ = "EOF"
    THEN POk(p, GoMap(obj))
    ELSE rowPut(parseValue(p), keys, i, obj)

\* if len(obj) > 0 { arr = append(arr, obj) }; the next row
rowAppend(r, keys, arr) ==
    IF r.st # "ok" THEN r
    ELSE parseTableRows(r.p, keys,
             IF DOMAIN r.val.kv # {} THEN GoSlice(Append(arr.el, r.val), FALSE) ELSE arr)

isAllWhitespace(s) == \A i \in 1..Len(s) : IsSpace(s[i])

\* the row loop of parseTableFormat
parseTableRows(p, keys, arr) ==
    IF p.cur.typ = "RBracket" \/ p.cur.typ = "EOF"
    THEN POk(p, arr)
    ELSE IF p.cur.typ = "Identifier" /\ isAllWhitespace(p.cur.value)
    THEN parseTableRows(pNextToken(p), keys, arr)
    ELSE rowAppend(parseRow(p, keys, 1, EmptyMap), keys, arr)

\* if p.cur.typ == tokenRBracket { p.nextToken() }; return arr, nil
tableClose(p, arr) ==
    POk(IF p.cur.typ = "RBracket" THEN pNextToken(p) ELSE p, arr)

\* after the row loop of parseTableFormat
tableEnd(r) ==
    IF r.st # "ok" THEN r ELSE tableClose(skipToRBracket(r.p), r.val)

parseTableFormat(p, keys) == tableEnd(parseTableRows(p, keys, GoSlice(<< >>, TRUE)))

\* after the plain-array loop of parseArray
arrayClose(r) ==
    IF r.st # "ok" THEN r
    ELSE IF r.p.cur.typ # "RBracket" THEN PErr(r.p, "unclosed array")
    ELSE POk(pNextToken(r.p), r.val)

\* parseArray from "if len(tableKeys) > 0"
arrayBody(p, tableKeys) ==
    IF Len(tableKeys) > 0
    THEN parseTableFormat(p, tableKeys)
    ELSE arrayClose(parseArrayLoop(p, GoSlice(<< >>, TRUE)))

\* if p.cur.typ == tokenColon { p.nextToken() }
headerColon(p, tableKeys) ==
    arrayBody(IF p.cur.typ = "Colon" THEN pNextToken(p) ELSE p, tableKeys)

\* after parseTableKeys: if p.cur.typ == tokenRBrace { p.nextToken() }
headerClose(tk) ==
    IF tk.hang THEN PHang(tk.p)
    ELSE headerColon(IF tk.p.cur.typ = "RBrace" THEN pNextToken(tk.p) ELSE tk.p, tk.keys)

\* if p.cur.typ == tokenLBrace { ... }
arrayHeader(p) ==
    IF p.cur.typ = "LBrace"
    THEN headerClose(parseTableKeys(pNextToken(p)))
    ELSE arrayBody(p, << >>)

\* parseArray without the step over the size annotation
arraySizeKept(p) == arrayHeader(p)

\* if p.cur.typ == tokenNumber { p.nextToken() }: the size annotation
arraySize(p) == arrayHeader(IF p.cur.typ = "Number" THEN pNextToken(p) ELSE p)

parseArray(p) == arraySize(pNextToken(p))

\* case tokenString of parseValue
stringValue(lexeme, u) == GoString(IF u.ok THEN u.s ELSE lexeme)

\* case tokenNumber of parseValue
numberValue(lexeme) ==
    IF HasAny(lexeme, {".", "e", "E"}) THEN ParseFloat(lexeme) ELSE GoInt(ParseInt(lexeme))

\* the scalar cases of parseValue
scalarValue(tok) ==
    CASE tok.typ = "String" -> stringValue(tok.value, Unquote(tok.value))
      [] tok.typ = "Number" -> numberValue(tok.value)
      [] tok.typ = "Boolean" -> GoBool(tok.value = <<"t","r","u","e">>)
      [] tok.typ = "Null" -> GoNil
      [] tok.typ = "Identifier" -> GoString(tok.value)

parseValue(p) ==
    CASE p.cur.typ = "LBrace" -> parseObject(p)
      [] p.cur.typ = "LBracket" -> parseArray(p)
      [] p.cur.typ \in {"String", "Number", "Boolean", "Null", "Identifier"} ->
            POk(pNextToken(p), scalarValue(p.cur))
      [] OTHER -> PErr(p, "unexpected token")

\* parser.parse
parseResult(r) == [st |-> r.st, val |-> r.val, msg |-> r.msg]

\* Decode: [st, val, msg]
Decode(toonStr) == parseResult(parseValue(newParser(newLexer(toonStr))))

(***************************************************************************)
(* Encoder.  Every encode function yields [st, text]: the text it wrote to *)
(* the builder, st = "ok" for a nil error, "panic" for a run-time panic.   *)
(* h stands for the order in which this run's range over a map yields its  *)
(* keys, which Go leaves unspecified.                                      *)
(***************************************************************************)

DefaultOptions ==
    [IndentSize |-> 2, Delimiter |-> << ",", " " >>, UseTabular |-> TRUE,
     KeyFolding |-> TRUE, ShowArraySizes |-> TRUE]

\* byte-wise a < b
RECURSIVE StrLess(_, _)
StrLess(a, b) ==
    IF b = << >> THEN FALSE
    ELSE IF a = << >> THEN TRUE
    ELSE IF a[1] # b[1] THEN Code(a[1]) < Code(b[1])
    ELSE StrLess(Tail(a), Tail(b))

RECURSIVE InsertSorted(_, _)
InsertSorted(sorted, k) ==
    IF sorted = << >> THEN << k >>
    ELSE IF StrLess(k, sorted[1]) THEN << k >> \o sorted
    ELSE << sorted[1] >> \o InsertSorted(Tail(sorted), k)

RECURSIVE SortFrom(_, _)
SortFrom(keys, acc) ==
    IF keys = << >> THEN acc ELSE SortFrom(Tail(keys), InsertSorted(acc, keys[1]))

\* the keys left in the order they were appended
KeepOrder(keys) == keys

\* sort.Strings(keys)
SortStrings(keys) == SortFrom(keys, << >>)

RECURSIVE SetToSeq(_)
SetToSeq(S) ==
    IF S = {} THEN << >>
    ELSE LET x == CHOOSE y \in S : TRUE IN << x >> \o SetToSeq(S \ {x})

Reverse(s) == [i \in 1..Len(s) |-> s[Len(s) + 1 - i]]

Rotate(s, n) == [i \in 1..Len(s) |-> s[((i - 1 + n) % Len(s)) + 1]]

\* for k := range m { keys = append(keys, k) }: the keys in the order run h
\* visits them
RangeKeys(S, h) ==
    LET base == SetToSeq(S)
    IN  IF h % 2 = 0 THEN Rotate(base, h \div 2) ELSE Reverse(Rotate(base, h \div 2))

RECURSIVE Join(_, _)
Join(parts, sep) ==
    IF parts = << >> THEN << >>
    ELSE IF Len(parts) = 1 THEN parts[1]
    ELSE parts[1] \o sep \o Join(Tail(parts), sep)

writeIndent(indent, options) == Spaces(indent)

\* item.(map[string]interface{}) succeeds
IsMap(v) == v.t = "map"

\* the keys of item.(map[string]interface{}); a failed assertion leaves a
\* nil map
KeysOf(v) == IF IsMap(v) THEN DOMAIN v.kv ELSE {}

\* the loop over slice[1:] of getCommonKeys, from index i
RECURSIVE commonKeysLoop(_, _, _)
commonKeysLoop(slice, i, common) ==
    IF i > Len(slice) THEN common
    ELSE LET c1 == { k \in common : k \in KeysOf(slice[i]) }
         IN  IF c1 = {} THEN c1 ELSE commonKeysLoop(slice, i + 1, c1)

\* getCommonKeys without its closing sort.Strings(result)
getCommonKeysUnsorted(slice, h) ==
    IF Len(slice) = 0 THEN << >>
    ELSE RangeKeys(commonKeysLoop(slice, 2, KeysOf(slice[1])), h)

getCommonKeys(slice, h) ==
    IF Len(slice) = 0 THEN << >>
    ELSE SortStrings(RangeKeys(commonKeysLoop(slice, 2, KeysOf(slice[1])), h))

\* eligibility judged on the first element's keys instead of the common keys
canUseTabularFormatFirst(slice, h) ==
    IF Len(slice) = 0 THEN FALSE
    ELSE IF \E i \in 1..Len(slice) : ~IsMap(slice[i]) THEN FALSE
    ELSE KeysOf(slice[1]) # {}

canUseTabularFormat(slice, h) ==
    IF Len(slice) = 0 THEN FALSE
    ELSE IF \E i \in 1..Len(slice) : ~IsMap(slice[i]) THEN FALSE
    ELSE Len(getCommonKeys(slice, h)) > 0

\* fmt.Sprintf("%v", v) on the values of the model (maps print their keys
\* sorted, strings unquoted, nil as <nil>)
RECURSIVE FormatV(_)
FormatV(v) ==
    CASE v.t = "string" -> v.s
      [] v.t = "bool" -> IF v.b THEN <<"t","r","u","e">> ELSE <<"f","a","l","s","e">>
      [] v.t = "int" -> FormatInt(v.i)
      [] v.t = "float" -> FormatG(v)
      [] v.t = "nil" -> <<"<","n","i","l",">">>
      [] v.t = "slice" ->
            << "[" >> \o Join([i \in 1..Len(v.el) |-> FormatV(v.el[i])], << " " >>) \o << "]" >>
      [] v.t = "map" ->
            LET ks == SortStrings(SetToSeq(DOMAIN v.kv))
            IN  <<"m","a","p","[">>
                \o Join([i \in 1..Len(ks) |-> ks[i] \o << ":" >> \o FormatV(v.kv[ks[i]])],
                        << " " >>)
                \o << "]" >>

formatValue(v) ==
    CASE v.t = "string" -> Quote(v.s)
      [] v.t = "bool" -> IF v.b THEN <<"t","r","u","e">> ELSE <<"f","a","l","s","e">>
      [] v.t = "int" -> FormatInt(v.i)
      [] v.t = "float" -> FormatG(v)
      [] v.t = "nil" -> <<"n","u","l","l">>
      [] OTHER -> FormatV(v)

EOk(text) == [st |-> "ok", text |-> text]

EPanic == [st |-> "panic", text |-> << >>]

RECURSIVE encodeValue(_, _, _, _)
RECURSIVE encodeMapEntries(_, _, _, _, _, _)
RECURSIVE encodeArrayItems(_, _, _, _, _)

\* for i, k := range keys of encodeMap, from index i
encodeMapEntries(m, keys, i, options, indent, h) ==
    IF i > Len(keys) THEN EOk(<< >>)
    ELSE LET k == keys[i]
             r == encodeValue(m[k], options, indent + options.IndentSize, h)
         IN  IF r.st # "ok" THEN r
             ELSE LET rest == encodeMapEntries(m, keys, i + 1, options, indent, h)
                  IN  IF rest.st # "ok" THEN rest
                      ELSE EOk(writeIndent(indent + options.IndentSize, options)
                               \o k \o << ":", " " >> \o r.text
                               \o (IF i - 1 < Cardinality(DOMAIN m) - 1 THEN << "," >> ELSE << >>)
                               \o << "\n" >> \o rest.text)

encodeMap(value, options, indent, h) ==
    LET m    == value.kv
        keys == SortStrings(RangeKeys(DOMAIN m, h))
        body == encodeMapEntries(m, keys, 1, options, indent, h)
    IN  IF body.st # "ok" THEN body
        ELSE EOk(writeIndent(indent, options) \o << "{" >>
                 \o (IF Cardinality(DOMAIN m) > 0 THEN << "\n" >> ELSE << >>)
                 \o body.text
                 \o (IF Cardinality(DOMAIN m) > 0 THEN writeIndent(indent, options) ELSE << >>)
                 \o << "}" >>)

\* the element loop of the plain branch of encodeArray, from index i
encodeArrayItems(slice, i, options, indent, h) ==
    IF i > Len(slice) THEN EOk(<< >>)
    ELSE LET r == encodeValue(slice[i], options, indent + options.IndentSize, h)
         IN  IF r.st # "ok" THEN r
             ELSE LET rest == encodeArrayItems(slice, i + 1, options, indent, h)
                  IN  IF rest.st # "ok" THEN rest
                      ELSE EOk(writeIndent(indent + options.IndentSize, options) \o r.text
                               \o (IF i - 1 < Len(slice) - 1 THEN << ",", "\n" >> ELSE << >>)
                               \o rest.text)

\* one row of the tabular branch
tableRow(item, keys, options) ==
    Join([j \in 1..Len(keys) |-> formatValue(item.kv[keys[j]])], options.Delimiter)

\* builder.WriteString("["), then the size when options.ShowArraySizes
arrayOpen(slice, options) ==
    << "[" >>
    \o (IF options.ShowArraySizes
        THEN << " " >> \o FormatInt(Len(slice)) \o << " " >>
        ELSE << >>)

\* encodeArray, useTabular branch, with the closing lines 230-234
encodeTabular(slice, keys, options, indent) ==
    EOk(arrayOpen(slice, options)
        \o << "{" >> \o Join(keys, options.Delimiter) \o << "}", ":", "\n" >>
        \o Join([i \in 1..Len(slice) |->
                    writeIndent(indent + options.IndentSize, options)
                    \o tableRow(slice[i], keys, options)],
                << "\n" >>)
        \o << "\n" >> \o writeIndent(indent, options) \o << "]" >>)

\* encodeArray, plain branch, around the text of the element loop
encodePlain(slice, body, options, indent) ==
    IF body.st # "ok" THEN body
    ELSE EOk(arrayOpen(slice, options)
             \o (IF Len(slice) > 0 THEN << "\n" >> ELSE << >>)
             \o body.text
             \o (IF Len(slice) > 0 THEN << "\n" >> \o writeIndent(indent, options) ELSE << >>)
             \o << "]" >>)

encodeArray(value, options, indent, h) ==
    IF options.UseTabular /\ canUseTabularFormat(value.el, h)
    THEN encodeTabular(value.el, getCommonKeys(value.el, h), options, indent)
    ELSE encodePlain(value.el, encodeArrayItems(value.el, 1, options, indent, h),
                     options, indent)

\* reflect.ValueOf(nil) is the zero Value: its Kind is Invalid, the switch
\* takes the default branch, and rv.CanInterface() panics on a zero Value
encodeValue(value, options, indent, h) ==
    CASE value.t = "map" -> encodeMap(value, options, indent, h)
      [] value.t = "slice" -> encodeArray(value, options, indent, h)
      [] value.t = "string" -> EOk(Quote(value.s))
      [] value.t = "bool" ->
            EOk(IF value.b THEN <<"t","r","u","e">> ELSE <<"f","a","l","s","e">>)
      [] value.t = "int" -> EOk(FormatInt(value.i))
      [] value.t = "float" -> EOk(FormatG(value))
      [] value.t = "nil" -> EPanic

Encode(data, options, h) ==
    IF data = GoNil THEN EOk(<< >>) ELSE encodeValue(data, options, 0, h)

(***************************************************************************)
(* The JSON boundary (encoding/json), over JSON documents as trees.        *)
(***************************************************************************)

JNull == [j |-> "null"]

JBool(b) == [j |-> "bool", b |-> b]

\* the number m * 10^e, m not divisible by 10
JNum(m, e) == [j |-> "number", fm |-> NormFloat(m, e).fm, fe |-> NormFloat(m, e).fe]

JStr(s) == [j |-> "string", s |-> s]

JArr(el) == [j |-> "array", el |-> el]

JObj(kv) == [j |-> "object", kv |-> kv]

\* json.Unmarshal(jsonStr, &data) into an interface{}: numbers become
\* float64, arrays non-nil []interface{}, objects map[string]interface{}
RECURSIVE Unmarshal(_)
Unmarshal(j) ==
    CASE j.j = "null" -> GoNil
      [] j.j = "bool" -> GoBool(j.b)
      [] j.j = "number" -> GoFloat(j.fm, j.fe)
      [] j.j = "string" -> GoString(j.s)
      [] j.j = "array" -> GoSlice([i \in 1..Len(j.el) |-> Unmarshal(j.el[i])], FALSE)
      [] j.j = "object" -> GoMap([k \in DOMAIN j.kv |-> Unmarshal(j.kv[k])])

\* json.MarshalIndent(data, "", "  "): a nil slice marshals as null
RECURSIVE Marshal(_)
Marshal(v) ==
    CASE v.t = "nil" -> JNull
      [] v.t = "bool" -> JBool(v.b)
      [] v.t = "int" -> JNum(v.i, 0)
      [] v.t = "float" -> JNum(v.fm, v.fe)
      [] v.t = "string" -> JStr(v.s)
      [] v.t = "slice" -> IF v.isnil THEN JNull
                          ELSE JArr([i \in 1..Len(v.el) |-> Marshal(v.el[i])])
      [] v.t = "map" -> JObj([k \in DOMAIN v.kv |-> Marshal(v.kv[k])])

EncodeJSON(j, options, h) == Encode(Unmarshal(j), options, h)

\* DecodeJSON: [st, json, msg]
DecodeJSON(toonStr) ==
    LET r == Decode(toonStr)
    IN  [st |-> r.st, json |-> IF r.st = "ok" THEN Marshal(r.val) ELSE JNull, msg |-> r.msg]

(***************************************************************************)
(* Inputs of the model                                                     *)
(***************************************************************************)

\* longest array handed to Encode and EncodeJSON
MaxElems == 2

\* most rows of a tabular text handed to Decode
MaxRows == 2

\* most tokens of a free token text handed to Decode
MaxTokens == 3

\* map iteration orders 0..MaxSeed
MaxSeed == 1

\* longest byte string handed to the lexer alone
MaxBytes == 3

Seeds == 0..MaxSeed

SeqsUpTo(S, n) == UNION { [1..k -> S] : k \in 0..n }

\* ---- values for Encode ----

IdKey == << "i", "d" >>

AKey == << "a" >>

\* objects over the keys id and a, with integer, string and boolean values
ElemObjects ==
    { GoMap(kv) : kv \in
        { f \in UNION { [ks -> {GoInt(1), GoInt(-30), GoString(<< "A", "\"" >>), GoBool(TRUE)}]
                        : ks \in SUBSET {IdKey, AKey} } :
            /\ IdKey \in DOMAIN f => f[IdKey].t = "int"
            /\ AKey \in DOMAIN f => f[AKey].t # "int" } }

NonObjectElems == { GoInt(7), GoNil, GoSlice(<< >>, FALSE) }

EncArrays ==
    { GoSlice(el, FALSE) : el \in SeqsUpTo(ElemObjects \cup NonObjectElems, MaxElems) }

Wrap(v) == GoMap(<< "u" >> :> v)

ObjKeys == { << "a" >>, << "B" >>, << "a", "b" >> }

ObjVals == { GoInt(1), GoString(<< "x" >>), GoNil, GoSlice(<< >>, FALSE),
             GoMap(<< "k" >> :> GoInt(2)) }

EncObjects == { GoMap(kv) : kv \in UNION { [ks -> ObjVals] : ks \in SUBSET ObjKeys } }

\* flat maps: arbitrary string keys, scalar values
FlatKeys == { << "a" >>, << "a", " ", "b" >>, << >>, << "1", "x" >>,
              << "t", "r", "u", "e" >>, << "a", ":" >> }

FlatVals == { GoNil, GoBool(FALSE), GoInt(3), GoFloat(15, -1), GoFloat(2, 0),
              GoFloat(15, 20), GoFloat(1, 21), GoString(<< "s", " ", "\\" >>) }

FlatMaps ==
    { GoMap(k :> v) : k \in FlatKeys, v \in FlatVals }
    \cup { GoMap((<< "a" >> :> v) @@ (<< "b" >> :> w)) : v \in FlatVals, w \in FlatVals }

TabularOptions ==
    { [DefaultOptions EXCEPT !.UseTabular = t, !.ShowArraySizes = s] : t, s \in BOOLEAN }

AllOptions ==
    { [IndentSize |-> n, Delimiter |-> d, UseTabular |-> t, KeyFolding |-> k,
       ShowArraySizes |-> s] :
        n \in {0, 2, 4}, d \in { << ",", " " >>, << "," >> }, t \in BOOLEAN,
        k \in BOOLEAN, s \in BOOLEAN }

EmptyArrayValues ==
    { GoSlice(<< >>, FALSE), GoSlice(<< >>, TRUE), Wrap(GoSlice(<< >>, FALSE)),
      GoSlice(<< GoSlice(<< >>, FALSE) >>, FALSE) }

EncodeInputs ==
    ((EncArrays \cup { Wrap(a) : a \in EncArrays }) \X TabularOptions)
    \cup ((EncObjects \cup FlatMaps \cup {GoNil}) \X {DefaultOptions})
    \cup (EmptyArrayValues \X AllOptions)

\* ---- documents for EncodeJSON ----

JElemObjects ==
    { JObj(kv) : kv \in
        UNION { [ks -> {JNum(1, 0), JStr(<< "A" >>)}] : ks \in SUBSET {IdKey, AKey} } }

JElems ==
    JElemObjects
    \cup { JNum(1, 0), JNum(2, 0), JStr(<< "B" >>), JBool(TRUE),
           JObj(AKey :> JArr(<< JNum(1, 0) >>)),
           JObj(AKey :> JObj(IdKey :> JNum(1, 0))) }

JArrays == { JArr(el) : el \in SeqsUpTo(JElems, MaxElems) }

JDocs ==
    JArrays
    \cup { JObj(<< "d" >> :> a) : a \in JArrays }
    \cup JElems
    \cup { JObj((<< "n" >> :> JNum(1234567, 0)) @@ (<< "m" >> :> JNum(1, 6))) }

\* documents with a null member
JNullDocs == { JObj(<< "k", "e", "y" >> :> JNull), JArr(<< JNull >>), JNull }

\* ---- texts for Decode ----

\* scalar cells: what is written and the value it stands for
CellPool ==
    << [c |-> "int", i |-> 1], [c |-> "str", s |-> << "A", "l" >>],
       [c |-> "int", i |-> -30], [c |-> "bool", b |-> TRUE],
       [c |-> "str", s |-> << "B", " ", "2" >>] >>

CellText(c) ==
    CASE c.c = "int" -> (IF c.i < 0 THEN << "-" >> ELSE << >>) \o NatDigits(Abs(c.i))
      [] c.c = "str" -> << "\"" >> \o c.s \o << "\"" >>
      [] c.c = "bool" -> IF c.b THEN <<"t","r","u","e">> ELSE <<"f","a","l","s","e">>

CellValue(c) ==
    CASE c.c = "int" -> GoInt(c.i)
      [] c.c = "str" -> GoString(c.s)
      [] c.c = "bool" -> GoBool(c.b)

\* row kind r of width m: m consecutive cells of the pool, from the r-th
RowCells(r, m) == [j \in 1..m |-> CellPool[((r + j - 2) % Len(CellPool)) + 1]]

Headers == { << AKey >>, << IdKey, << "n", "a", "m", "e" >> >>,
             << << "x", "_", "1" >>, IdKey, AKey >> }

SizeNotes == { 0, 3 }

\* [ N {k1, ..., km}: rows ], the closing bracket left out when ~closed
TableTexts ==
    { [kind |-> "table", n |-> n, keys |-> ks, rows |-> rs, closed |-> cl] :
        n \in SizeNotes, ks \in Headers,
        rs \in SeqsUpTo(1..Len(CellPool), MaxRows), cl \in BOOLEAN }

\* [v1, ..., vn] with an optional size annotation (n = -1: none)
ArrayTexts ==
    { [kind |-> "array", n |-> n, items |-> it, closed |-> cl] :
        n \in {-1} \cup SizeNotes,
        it \in SeqsUpTo(1..Len(CellPool), MaxRows), cl \in BOOLEAN }

\* { k: v, ... } over the keys of a header
ObjectTexts ==
    { [kind |-> "object", keys |-> ks, row |-> r, closed |-> cl] :
        ks \in Headers, r \in 1..Len(CellPool), cl \in BOOLEAN }

Lexemes == { << "[" >>, << "]" >>, << "{" >>, << "}" >>, << ":" >>, << "," >>,
             << "1" >>, << "a" >>, << "\"", "s", "\"" >> }

\* [{a: 1}], the array of one object written line-per-element
ObjectInArray ==
    << << "[" >>, << "{" >>, << "a" >>, << ":" >>, << "1" >>, << "}" >>, << "]" >> >>

TokenTexts ==
    { [kind |-> "tokens", toks |-> ts] : ts \in SeqsUpTo(Lexemes, MaxTokens) \cup {ObjectInArray} }

\* [-] digits [ . digits ] [ (e|E) [+|-] digits ]
NumberTexts ==
    { [kind |-> "number", neg |-> ng, int |-> d, frac |-> f, exp |-> x] :
        ng \in BOOLEAN, d \in { << "1" >>, << "3", "0" >> },
        f \in { << >>, << ".", "5" >> },
        x \in { << >>, << "e", "2", "1" >>, << "e", "+", "2", "1" >>, << "E", "-", "2" >> } }

DecodeInputs == TableTexts \cup ArrayTexts \cup ObjectTexts \cup TokenTexts \cup NumberTexts

ItemsText(cells, sep) == Join([j \in 1..Len(cells) |-> CellText(cells[j])], sep)

TextOf(d) ==
    CASE d.kind = "table" ->
            << "[", " " >> \o NatDigits(d.n) \o << " ", "{" >>
            \o Join(d.keys, << ",", " " >>) \o << "}", ":", "\n" >>
            \o Join([i \in 1..Len(d.rows) |->
                        << " ", " " >> \o ItemsText(RowCells(d.rows[i], Len(d.keys)), << ",", " " >>)
                        \o << "\n" >>], << >>)
            \o (IF d.closed THEN << "]" >> ELSE << >>)
      [] d.kind = "array" ->
            << "[" >> \o (IF d.n >= 0 THEN << " " >> \o NatDigits(d.n) \o << " " >> ELSE << >>)
            \o ItemsText([i \in 1..Len(d.items) |-> CellPool[d.items[i]]], << ",", " " >>)
            \o (IF d.closed THEN << "]" >> ELSE << >>)
      [] d.kind = "object" ->
            << "{" >>
            \o Join([j \in 1..Len(d.keys) |->
                        d.keys[j] \o << ":", " " >> \o CellText(RowCells(d.row, Len(d.keys))[j])],
                    << ",", "\n" >>)
            \o (IF d.closed THEN << "}" >> ELSE << >>)
      [] d.kind = "tokens" -> Join(d.toks, << " " >>)
      [] d.kind = "number" ->
            (IF d.neg THEN << "-" >> ELSE << >>) \o d.int \o d.frac \o d.exp

\* ---- inputs of the lexer ----

\* one byte of every class the lexer tells apart
LexBytes == { "{", ":", "\"", "\\", "-", "1", ".", "e", "a", " ", "!", "<a0>", "<c3>" }

NumberLexemes == { TextOf(d) : d \in NumberTexts }

LexInputs == SeqsUpTo(LexBytes, MaxBytes) \cup NumberLexemes

(***************************************************************************)
(* The program: a caller invoking the four API functions.  Each call runs  *)
(* to completion in one step; nothing is shared between calls.             *)
(***************************************************************************)

VARIABLES
    pc,     \* "idle" or "returned"
    call,   \* the function that returned last
    arg,    \* its argument
    opts,   \* the Options it was given
    seed,   \* the map iteration order of the run
    out,    \* what it returned
    src,    \* what the argument was made from
    lex,    \* the lexer a caller drives by itself
    tok,    \* the token its last nextToken returned
    calls,  \* the number of nextToken calls on it
    prevPos \* lex.pos at the return of the call before the last

lexvars == << lex, tok, calls, prevPos >>

vars == << pc, call, arg, opts, seed, out, src, lex, tok, calls, prevPos >>

NoSrc == [kind |-> "none"]

Init ==
    /\ pc = "idle"
    /\ call = "none"
    /\ arg = [kind |-> "none"]
    /\ opts = DefaultOptions
    /\ seed = 0
    /\ out = [st |-> "none"]
    /\ src = NoSrc
    /\ lex = newLexer(<< >>)
    /\ tok = ZeroToken
    /\ calls = 0
    /\ prevPos = 0

\* Encode(data, options)
DoEncode ==
    /\ pc = "idle"
    /\ \E in \in EncodeInputs, h \in Seeds :
          /\ call' = "Encode"
          /\ arg' = [kind |-> "value", v |-> in[1]]
          /\ opts' = in[2]
          /\ seed' = h
          /\ out' = Encode(in[1], in[2], h)
    /\ src' = NoSrc
    /\ pc' = "returned"
    /\ UNCHANGED lexvars

\* EncodeJSON(jsonStr, DefaultOptions())
DoEncodeJSON ==
    /\ pc = "idle"
    /\ \E j \in JDocs \cup JNullDocs, h \in Seeds :
          /\ call' = "EncodeJSON"
          /\ arg' = [kind |-> "json", j |-> j]
          /\ seed' = h
          /\ out' = EncodeJSON(j, DefaultOptions, h)
    /\ opts' = DefaultOptions
    /\ src' = NoSrc
    /\ pc' = "returned"
    /\ UNCHANGED lexvars

\* Decode(toonStr) on a written text
DoDecode ==
    /\ pc = "idle"
    /\ \E d \in DecodeInputs :
          /\ arg' = [kind |-> "text", text |-> TextOf(d)]
          /\ src' = d
          /\ out' = Decode(TextOf(d))
    /\ call' = "Decode"
    /\ pc' = "returned"
    /\ UNCHANGED << opts, seed >>
    /\ UNCHANGED lexvars

\* Decode on the text Encode has just returned
DoDecodeEncoded ==
    /\ pc = "returned"
    /\ call = "Encode"
    /\ out.st = "ok"
    /\ call' = "Decode"
    /\ arg' = [kind |-> "text", text |-> out.text]
    /\ src' = arg
    /\ out' = Decode(out.text)
    /\ UNCHANGED << pc, opts, seed >>
    /\ UNCHANGED lexvars

\* DecodeJSON on the text EncodeJSON has just returned
DoDecodeJSONEncoded ==
    /\ pc = "returned"
    /\ call = "EncodeJSON"
    /\ out.st = "ok"
    /\ call' = "DecodeJSON"
    /\ arg' = [kind |-> "text", text |-> out.text]
    /\ src' = arg
    /\ out' = DecodeJSON(out.text)
    /\ UNCHANGED << pc, opts, seed >>
    /\ UNCHANGED lexvars

\* newLexer(input)
DoNewLexer ==
    /\ pc = "idle"
    /\ \E input \in LexInputs : lex' = newLexer(input)
    /\ tok' = ZeroToken
    /\ calls' = 0
    /\ prevPos' = 0
    /\ call' = "newLexer"
    /\ pc' = "lexing"
    /\ UNCHANGED << arg, opts, seed, out, src >>

\* l.nextToken(), as often as the end of the input plus one more time
DoNextToken ==
    /\ pc = "lexing"
    /\ calls <= Len(lex.input) + 1
    /\ lex' = nextToken(lex).l
    /\ tok' = nextToken(lex).tok
    /\ calls' = calls + 1
    /\ prevPos' = lex.pos
    /\ call' = "nextToken"
    /\ UNCHANGED << pc, arg, opts, seed, out, src >>

\* the caller is done with the result
Forget ==
    /\ pc \in {"returned", "lexing"}
    /\ pc' = "idle"
    /\ call' = "none"
    /\ arg' = [kind |-> "none"]
    /\ opts' = DefaultOptions
    /\ seed' = 0
    /\ out' = [st |-> "none"]
    /\ src' = NoSrc
    /\ lex' = newLexer(<< >>)
    /\ tok' = ZeroToken
    /\ calls' = 0
    /\ prevPos' = 0

Next ==
    \/ DoEncode
    \/ DoEncodeJSON
    \/ DoDecode
    \/ DoDecodeEncoded
    \/ DoDecodeJSONEncoded
    \/ DoNewLexer
    \/ DoNextToken
    \/ Forget

Spec == Init /\ [][Next]_vars


(***************************************************************************)
(* The properties of the specification, stated over the calls above.       *)
(***************************************************************************)

\* the strings of S in ascending byte order
Ascending(S) ==
    CHOOSE s \in [1..Cardinality(S) -> S] :
        \A i, j \in 1..Cardinality(S) : i < j => StrLess(s[i], s[j])

\* sub occurs in text
Occurs(sub, text) ==
    \E i \in 0..(Len(text) - Len(sub)) : SubSeq(text, i + 1, i + Len(sub)) = sub

UKey == << "u" >>

\* the last call was Encode of an array
TopArray == call = "Encode" /\ arg.v.t = "slice"

\* the last call was Encode of the object {u: array}
NestedArray ==
    /\ call = "Encode"
    /\ arg.v.t = "map"
    /\ DOMAIN arg.v.kv = {UKey}
    /\ arg.v.kv[UKey].t = "slice"

\* text as the value of the only field u of an object
InObject(text, o) ==
    << "{", "\n" >> \o Spaces(o.IndentSize) \o << "u", ":", " " >> \o text \o << "\n", "}" >>

\* a scalar as a table cell
ScalarText(v) ==
    CASE v.t = "int" -> (IF v.i < 0 THEN << "-" >> ELSE << >>) \o NatDigits(Abs(v.i))
      [] v.t = "string" -> Quote(v.s)
      [] v.t = "bool" -> IF v.b THEN <<"t","r","u","e">> ELSE <<"f","a","l","s","e">>

\* every element an object with the key set of the first and scalar values
UniformObjects(el) ==
    /\ Len(el) > 0
    /\ \A i \in 1..Len(el) : IsMap(el[i])
    /\ \A i \in 1..Len(el) :
          /\ DOMAIN el[i].kv = DOMAIN el[1].kv
          /\ \A k \in DOMAIN el[i].kv : el[i].kv[k].t \in {"int", "string", "bool"}

\* [ N {k1, k2}: rows ] at indentation d, as the default options write it
DefaultTable(el, d) ==
    << "[", " " >> \o NatDigits(Len(el)) \o << " ", "{" >>
    \o Join(Ascending(DOMAIN el[1].kv), << ",", " " >>) \o << "}", ":", "\n" >>
    \o Join([i \in 1..Len(el) |->
                Spaces(d + 2)
                \o Join([j \in 1..Cardinality(DOMAIN el[1].kv) |->
                            ScalarText(el[i].kv[Ascending(DOMAIN el[1].kv)[j]])],
                        << ",", " " >>)],
            << "\n" >>)
    \o << "\n" >> \o Spaces(d) \o << "]" >>

\* C1: Decode terminates, with a value or an error, on every input text:
\* no parser loop runs without consuming a token or reaching end-of-input.
C1_DecodeTerminates == call = "Decode" => out.st # "hang"

\* C2: for every JSON document j of objects, arrays, strings, integers and
\* booleans, EncodeJSON(j, DefaultOptions()) succeeds and DecodeJSON of its
\* text returns without error a JSON value structurally equal to j.
C2_JSONRoundTrip ==
    /\ (call = "EncodeJSON" /\ arg.j \in JDocs => out.st = "ok")
    /\ (call = "DecodeJSON" /\ src.j \in JDocs => out.st = "ok" /\ out.json = src.j)

\* C3: Decode returns the error "unclosed object" / "unclosed array", never
\* a value, for a text whose object or array, plain or tabular, reaches
\* end-of-input before its closing brace or bracket.
C3_UnclosedIsError ==
    call = "Decode" /\ src.kind \in {"table", "array", "object"} /\ ~src.closed
        => /\ out.st = "error"
           /\ out.msg = (IF src.kind = "object" THEN "unclosed object" ELSE "unclosed array")

\* C4 as stated: under DefaultOptions, Encode of a non-empty array of N
\* objects with the same key set and scalar values, at indentation d, is
\* exactly [ N {keys ascending}: then one row of d+2 spaces and the values
\* per element, rows separated by a newline, then d spaces and ].
C4_TabularFormatAnyKeySet ==
    /\ (TopArray /\ opts = DefaultOptions /\ UniformObjects(arg.v.el)
            => out = EOk(DefaultTable(arg.v.el, 0)))
    /\ (NestedArray /\ opts = DefaultOptions /\ UniformObjects(arg.v.kv[UKey].el)
            => out = EOk(InObject(DefaultTable(arg.v.kv[UKey].el, 2), opts)))

\* C4, amended: the tabular format above is what Encode produces for a
\* non-empty array of objects that all have the same non-empty key set and
\* scalar values.
C4_TabularFormat ==
    /\ (TopArray /\ opts = DefaultOptions /\ UniformObjects(arg.v.el)
          /\ DOMAIN arg.v.el[1].kv # {}
            => out = EOk(DefaultTable(arg.v.el, 0)))
    /\ (NestedArray /\ opts = DefaultOptions /\ UniformObjects(arg.v.kv[UKey].el)
          /\ DOMAIN arg.v.kv[UKey].el[1].kv # {}
            => out = EOk(InObject(DefaultTable(arg.v.kv[UKey].el, 2), opts)))

\* Encode has written a nested table of two rows and two columns, from a
\* run whose map iteration does not yield the keys in ascending order
C4_Witness ==
    /\ NestedArray
    /\ opts = DefaultOptions
    /\ UniformObjects(arg.v.kv[UKey].el)
    /\ Len(arg.v.kv[UKey].el) = 2
    /\ Cardinality(DOMAIN arg.v.kv[UKey].el[1].kv) = 2
    /\ arg.v.kv[UKey].el[1] # arg.v.kv[UKey].el[2]
    /\ RangeKeys(DOMAIN arg.v.kv[UKey].el[1].kv, seed)
         # Ascending(DOMAIN arg.v.kv[UKey].el[1].kv)
    /\ out.st = "ok"

\* the object a row of cells stands for under a header
RowObject(keys, cells) ==
    GoMap([k \in { keys[j] : j \in 1..Len(keys) } |->
              CellValue(cells[CHOOSE j \in 1..Len(keys) : keys[j] = k])])

\* C5: Decode of [ N {k1, ..., km}: R rows of m scalar cells ] returns an
\* array of exactly R objects in row order, the i-th with exactly the keys
\* k1..km, kj mapped to the j-th cell of row i; N is never compared with R.
C5_TabularDecoding ==
    call = "Decode" /\ src.kind = "table" /\ src.closed
        => /\ out.st = "ok"
           /\ out.val.t = "slice"
           /\ out.val.el = [i \in 1..Len(src.rows) |->
                               RowObject(src.keys, RowCells(src.rows[i], Len(src.keys)))]

\* Decode has returned from a table of two rows and three columns whose
\* size annotation is not the number of rows
C5_Witness ==
    /\ call = "Decode"
    /\ src.kind = "table"
    /\ src.closed
    /\ Len(src.rows) = 2
    /\ Len(src.keys) = 3
    /\ src.n # Len(src.rows)
    /\ out.st = "ok"
    /\ Len(out.val.el) = 2

\* the keys every element has
SharedKeys(el) == { k \in KeysOf(el[1]) : \A i \in 1..Len(el) : k \in KeysOf(el[i]) }

Eligible(el, o) ==
    /\ o.UseTabular
    /\ Len(el) > 0
    /\ \A i \in 1..Len(el) : IsMap(el[i])
    /\ SharedKeys(el) # {}

SizeText(n, o) ==
    IF o.ShowArraySizes THEN << " " >> \o NatDigits(n) \o << " " >> ELSE << >>

\* the tabular form under header keys
TableText(el, keys, o, d) ==
    << "[" >> \o SizeText(Len(el), o) \o << "{" >>
    \o Join(keys, o.Delimiter) \o << "}", ":", "\n" >>
    \o Join([i \in 1..Len(el) |->
                Spaces(d + o.IndentSize)
                \o Join([j \in 1..Len(keys) |-> ScalarText(el[i].kv[keys[j]])], o.Delimiter)],
            << "\n" >>)
    \o << "\n" >> \o Spaces(d) \o << "]" >>

\* the line-per-element form, each element as encodeValue writes it
LinesText(el, o, d, h) ==
    << "[" >> \o SizeText(Len(el), o)
    \o (IF Len(el) = 0 THEN << >>
        ELSE << "\n" >>
             \o Join([i \in 1..Len(el) |->
                         Spaces(d + o.IndentSize)
                         \o encodeValue(el[i], o, d + o.IndentSize, h).text],
                     << ",", "\n" >>)
             \o << "\n" >> \o Spaces(d))
    \o << "]" >>

ArrayText(el, o, d, h) ==
    IF Eligible(el, o)
    THEN TableText(el, Ascending(SharedKeys(el)), o, d)
    ELSE LinesText(el, o, d, h)

\* C6: Encode renders an array in tabular form if and only if use_tabular
\* is true, the array is non-empty, every element is an object and the
\* intersection of the elements' key sets is non-empty; the header is that
\* intersection in ascending order, and a field outside it is in no row.
\* Every other array is rendered line-per-element.
C6_TabularEligibility ==
    /\ (TopArray /\ out.st = "ok" => out.text = ArrayText(arg.v.el, opts, 0, seed))
    /\ (NestedArray /\ out.st = "ok"
            => out.text = InObject(ArrayText(arg.v.kv[UKey].el, opts, opts.IndentSize, seed),
                                   opts))

\* Encode has written a table for two objects that share one key of the
\* two they have between them
C6_Witness ==
    /\ TopArray
    /\ out.st = "ok"
    /\ Len(arg.v.el) = 2
    /\ Eligible(arg.v.el, opts)
    /\ Cardinality(SharedKeys(arg.v.el)) = 1
    /\ Cardinality(KeysOf(arg.v.el[1]) \cup KeysOf(arg.v.el[2])) = 2

\* C7: for every object with arbitrary string keys and scalar field values
\* (Null, Bool, Int, Float, String), Decode(Encode(v, DefaultOptions()))
\* succeeds and yields the same keys with the same values of the same
\* variants.
C7_FlatMapRoundTrip ==
    /\ (call = "Encode" /\ arg.v \in FlatMaps => out.st = "ok")
    /\ (call = "Decode" /\ src.kind = "value" /\ src.v \in FlatMaps
            => out.st = "ok" /\ out.val = src.v)

\* an object with its entries one per line in ascending key order, a comma
\* after each but the last, each value as encodeValue writes it
ObjectText(kv, o, h) ==
    << "{" >>
    \o (IF DOMAIN kv = {} THEN << >>
        ELSE << "\n" >>
             \o Join([i \in 1..Cardinality(DOMAIN kv) |->
                         Spaces(o.IndentSize) \o Ascending(DOMAIN kv)[i] \o << ":", " " >>
                         \o encodeValue(kv[Ascending(DOMAIN kv)[i]], o, o.IndentSize, h).text],
                     << ",", "\n" >>)
             \o << "\n" >>)
    \o << "}" >>

\* C8: Encode of an object emits its entries, one key: value per line, in
\* ascending key order whatever order the keys come in, with a comma after
\* every entry but the last; the text is the same in every run.
C8_SortedObject ==
    call = "Encode" /\ arg.v.t = "map" /\ out.st = "ok"
        => /\ out.text = ObjectText(arg.v.kv, opts, seed)
           /\ \A h \in Seeds : Encode(arg.v, opts, h) = out

\* Encode has written an object of three entries in a run whose map
\* iteration does not yield the keys in ascending order
C8_Witness ==
    /\ call = "Encode"
    /\ arg.v.t = "map"
    /\ out.st = "ok"
    /\ Cardinality(DOMAIN arg.v.kv) = 3
    /\ RangeKeys(DOMAIN arg.v.kv, seed) # Ascending(DOMAIN arg.v.kv)

\* the line of field k when nothing follows its colon
EmptyField(k, o) == << "\n" >> \o Spaces(o.IndentSize) \o k \o << ":", " " >>

\* C9: Encode of an object with a Null field returns a text, with no error
\* and no runtime fault, in which that field is key: with nothing after the
\* colon; so does EncodeJSON of a document with "key": null.
C9_NullField ==
    /\ (call = "Encode" /\ arg.v.t = "map"
            => \A k \in DOMAIN arg.v.kv :
                  arg.v.kv[k] = GoNil
                      => /\ out.st = "ok"
                         /\ \/ Occurs(EmptyField(k, opts) \o << "\n" >>, out.text)
                            \/ Occurs(EmptyField(k, opts) \o << ",", "\n" >>, out.text))
    /\ (call = "EncodeJSON" /\ arg.j.j = "object"
            => \A k \in DOMAIN arg.j.kv :
                  arg.j.kv[k] = JNull
                      => /\ out.st = "ok"
                         /\ Occurs(EmptyField(k, opts) \o << "\n" >>, out.text))

\* the empty array in an array of one element
InArray(text, o) ==
    << "[" >> \o SizeText(1, o) \o << "\n" >> \o Spaces(o.IndentSize) \o text \o << "\n", "]" >>

\* Encode of an empty array, of {u: []} and of [[]] has written e for it
EmptyArrayIs(e) ==
    /\ (TopArray /\ Len(arg.v.el) = 0 => out = EOk(e))
    /\ (NestedArray /\ Len(arg.v.kv[UKey].el) = 0 => out = EOk(InObject(e, opts)))
    /\ (TopArray /\ Len(arg.v.el) = 1 /\ arg.v.el[1].t = "slice"
          /\ Len(arg.v.el[1].el) = 0
            => out = EOk(InArray(e, opts)))

\* C10: Encode of an array with zero elements emits exactly [] for every
\* option setting, the default show_array_sizes = true included, at top
\* level and as a nested value.
C10_EmptyArrayBare == EmptyArrayIs(<< "[", "]" >>)

\* C11: for every lexeme [-] digits [ . digits ] [ (e|E) [+|-] digits ] the
\* lexer returns one number token whose text is the whole lexeme, and
\* Decode classifies it Float if it contains ., e or E and Int otherwise.
C11_NumberToken ==
    /\ (pc = "lexing" /\ calls = 1 /\ lex.input \in NumberLexemes
            => tok.typ = "Number" /\ tok.value = lex.input)
    /\ (call = "Decode" /\ src.kind = "number"
            => /\ out.st = "ok"
               /\ out.val.t = (IF HasAny(arg.text, {".", "e", "E"}) THEN "float" ELSE "int"))



\* an array of integers only
IntegerArray(v) ==
    v.t = "slice" /\ Len(v.el) > 0 /\ \A i \in 1..Len(v.el) : v.el[i].t = "int"

\* C12: for every text [v1, v2, ..., vn] (n >= 0) of scalars written
\* without a size annotation Decode returns an array of exactly the values
\* v1..vn in order, also when v1 is a number, as in the text Encode writes
\* for an array of integers when show_array_sizes is false.
C12_PlainArrayWithoutSize ==
    /\ (call = "Decode" /\ src.kind = "array" /\ src.n = -1 /\ src.closed
            => /\ out.st = "ok"
               /\ out.val.t = "slice"
               /\ out.val.el = [i \in 1..Len(src.items) |-> CellValue(CellPool[src.items[i]])])
    /\ (call = "Decode" /\ src.kind = "value" /\ IntegerArray(src.v) /\ ~opts.ShowArraySizes
            => /\ out.st = "ok"
               /\ out.val.t = "slice"
               /\ out.val.el = src.v.el)



\* the token is the end-of-input token of an input read to its end
TrueEOF == tok.typ = "EOF" /\ tok.value = << >> /\ lex.pos = Len(lex.input)

\* C13: throughout any sequence of nextToken calls on any input,
\* 0 <= start <= pos <= len(input); pos at the return of a call is never
\* smaller than at the return of the call before; every token returned,
\* the end-of-input token of an unrecognized character included, covers at
\* least one byte unless the input is read to its end; and the end of the
\* input is reached after at most len(input)+1 calls.
C13_LexerBounds ==
    pc = "lexing"
        => /\ 0 <= lex.start
           /\ lex.start <= lex.pos
           /\ lex.pos <= Len(lex.input)
           /\ prevPos <= lex.pos
           /\ tok.pos = lex.start
           /\ tok.value = Slice(lex.input, lex.start, lex.pos)
           /\ (calls > 0 => Len(tok.value) >= 1 \/ TrueEOF)
           /\ (calls > Len(lex.input) => TrueEOF)

\* the lexer has returned, before the end of a three-byte input, an
\* end-of-input token that covers the two bytes a byte >= 0x80 takes
C13_Witness ==
    /\ pc = "lexing"
    /\ calls = 2
    /\ Len(lex.input) = 3
    /\ tok.typ = "EOF"
    /\ Len(tok.value) = 2
    /\ lex.pos = 3
    /\ prevPos = 1


====
